---- MODULE Spec2Model ----
(***************************************************************************)
(* A model of example1.py: discovery of remote GRIB2 files, extraction of  *)
(* per-message reference sidecars (sequentially or on a thread pool), and  *)
(* the combination step that lists the sidecar directory.                  *)
(*                                                                         *)
(* Python strings are modelled as sequences of one-character strings, so   *)
(* that str.split, slicing, the f-string and sorted() are computed as the  *)
(* interpreter computes them.                                              *)
(***************************************************************************)
EXTENDS Integers, Sequences, FiniteSets, TLC

VARIABLES
    \* ---- make_json_name called on its own
    shape,          \* the segments the input path was assembled from
    file_url,       \* argument file_url
    message_number, \* argument message_number
    json_name,      \* the call's outcome
    \* ---- find_grib_files
    remote_days,    \* what glob('s3://noaa-hrrr-bdp-pds/hrrr.*') returns
    remote_files,   \* per day entry, what its conus/ directory holds
    findPc,         \* "ready" before the call, "returned" after it
    grib_files,     \* the value returned
    \* ---- the environment of an extraction run
    file_list,      \* argument of process_files / process_files_parallel
    scan_result,    \* per source path, what scan_grib does with it
    unwritable,     \* sidecar paths fs_write.open refuses
    initDir,        \* JSON_DIR before the run
    \* ---- process_files (the main thread runs generate_json_files)
    seqPc,          \* "running", "returned" or "raised"
    seqK,           \* position of the for loop in file_list
    seqTask,        \* the generate_json_files call in progress
    seqExc,         \* the exception that left process_files
    dirSeq,         \* JSON_DIR of the sequential run
    seqLog,         \* history: the sidecars written, in order
    seqScanned,     \* history: the positions scan_grib was called for
    \* ---- main with process_files_parallel
    mainPc,         \* position of main
    queue,          \* the executor's work queue (positions in file_list)
    running,        \* the generate_json_files calls the pool threads are in
    futures,        \* per submitted task, the state of its future
    dirPar,         \* JSON_DIR of the parallel run
    parWritten,     \* history: the sidecars written
    parScanned,     \* history: per position, the scan_grib calls made
    reference_jsons \* what combine_references listed

nameVars == <<shape, file_url, message_number, json_name>>
findVars == <<remote_days, remote_files, findPc, grib_files>>
envVars == <<file_list, scan_result, unwritable, initDir>>
seqVars == <<seqPc, seqK, seqTask, seqExc, dirSeq, seqLog, seqScanned>>
parVars == <<mainPc, queue, running, futures, dirPar, parWritten, parScanned,
             reference_jsons>>
vars == <<shape, file_url, message_number, json_name,
          remote_days, remote_files, findPc, grib_files,
          file_list, scan_result, unwritable, initDir,
          seqPc, seqK, seqTask, seqExc, dirSeq, seqLog, seqScanned,
          mainPc, queue, running, futures, dirPar, parWritten, parScanned,
          reference_jsons>>

(***************************************************************************)
(* Strings                                                                 *)
(***************************************************************************)
\* The characters in use, in code-point order (sorted() compares code points).
Alphabet ==
    <<"-", ".", "/", "0", "1", "2", "3", "4", "5", "6", "7", "8", "9", ":",
      "_", "a", "b", "c", "d", "e", "f", "g", "h", "i", "j", "k", "l", "m",
      "n", "o", "p", "q", "r", "s", "t", "u", "v", "w", "x", "y", "z">>

Ord(c) == CHOOSE i \in 1..Len(Alphabet) : Alphabet[i] = c

Min(a, b) == IF a <= b THEN a ELSE b

\* s < t as Python compares two str values.
RECURSIVE StrLess(_, _)
StrLess(s, t) ==
    IF t = <<>> THEN FALSE
    ELSE IF s = <<>> THEN TRUE
    ELSE IF Head(s) = Head(t) THEN StrLess(Tail(s), Tail(t))
    ELSE Ord(Head(s)) < Ord(Head(t))

\* s.split(sep) for a one-character separator: empty fields are kept.
RECURSIVE SplitFrom(_, _, _)
SplitFrom(s, sep, field) ==
    IF s = <<>> THEN <<field>>
    ELSE IF Head(s) = sep THEN <<field>> \o SplitFrom(Tail(s), sep, <<>>)
    ELSE SplitFrom(Tail(s), sep, Append(field, Head(s)))

Split(s, sep) == SplitFrom(s, sep, <<>>)

\* lst[a:b] with 0 <= a <= b, as Python clips a slice to the list.
Slice(lst, a, b) == SubSeq(lst, a + 1, Min(b, Len(lst)))

\* str(n) for n >= 0.
DecimalDigits == <<"0", "1", "2", "3", "4", "5", "6", "7", "8", "9">>

RECURSIVE Str(_)
Str(n) ==
    IF n < 10 THEN <<DecimalDigits[n + 1]>>
    ELSE Str(n \div 10) \o <<DecimalDigits[(n % 10) + 1]>>

EndsWith(s, suffix) ==
    /\ Len(s) >= Len(suffix)
    /\ SubSeq(s, Len(s) - Len(suffix) + 1, Len(s)) = suffix

StartsWith(s, prefix) ==
    /\ Len(s) >= Len(prefix)
    /\ SubSeq(s, 1, Len(prefix)) = prefix

(***************************************************************************)
(* Configuration constants                                                 *)
(***************************************************************************)
JSON_DIR == <<"/", "t", "m", "p", "/", "j", "s", "o", "n", "s", "/">>

(***************************************************************************)
(* make_json_name                                                          *)
(***************************************************************************)
Raised(exc) == [raised |-> exc, value |-> <<>>]
Returned(v) == [raised |-> "none", value |-> v]

Subscript_clamped(lst, i) ==
    IF lst = <<>> THEN Raised("IndexError")
    ELSE Returned(lst[Min(i, Len(lst) - 1) + 1])

\* lst[i] for a 0-based i >= 0: the element, or IndexError.
Subscript(lst, i) ==
    IF i < Len(lst) THEN Returned(lst[i + 1]) ELSE Raised("IndexError")

\* Line 29: file_url.split('/')[3].split('.')[1]
date_segment(url) ==
    LET seg == Subscript(Split(url, "/"), 3)
    IN  IF seg.raised # "none" THEN seg
        ELSE Subscript(Split(seg.value, "."), 1)

name_segments_from_zero(url) ==
    LET seg == Subscript(Split(url, "/"), 5)
    IN  IF seg.raised # "none" THEN seg
        ELSE Returned(Slice(Split(seg.value, "."), 0, 2))

\* Line 30: file_url.split('/')[5].split('.')[1:3]
name_segments(url) ==
    LET seg == Subscript(Split(url, "/"), 5)
    IN  IF seg.raised # "none" THEN seg
        ELSE Returned(Slice(Split(seg.value, "."), 1, 3))

\* Line 31, with the subscripts name_segments[0] and name_segments[1].
make_json_name(url, n) ==
    LET d  == date_segment(url)
        ns == name_segments(url)
    IN  IF d.raised # "none" THEN d
        ELSE IF ns.raised # "none" THEN ns
        ELSE LET n0 == Subscript(ns.value, 0)
                 n1 == Subscript(ns.value, 1)
             IN  IF n0.raised # "none" THEN n0
                 ELSE IF n1.raised # "none" THEN n1
                 ELSE Returned(JSON_DIR \o d.value \o <<"_">> \o n0.value
                               \o <<"_">> \o n1.value
                               \o <<"_", "m", "e", "s", "s", "a", "g", "e">>
                               \o Str(n) \o <<".", "j", "s", "o", "n">>)

(***************************************************************************)
(* Inputs of the shape s3://<bucket>/hrrr.<date>/conus/hrrr.<run>.<product>.grib2 *)
(***************************************************************************)
S3Scheme == <<"s", "3", ":", "/", "/">>
HrrrDot == <<"h", "r", "r", "r", ".">>
Conus == <<"c", "o", "n", "u", "s">>
DotGrib2 == <<".", "g", "r", "i", "b", "2">>

Bucket1 == <<"b", "u", "c", "k", "e", "t">>
NoaaBucket ==
    <<"n", "o", "a", "a", "-", "h", "r", "r", "r", "-", "b", "d", "p", "-",
      "p", "d", "s">>
Date1 == <<"2", "0", "2", "4", "0", "1", "0", "1">>
Date2 == <<"2", "0", "2", "4", "0", "1", "0", "2">>
Date3 == <<"2", "0", "2", "4", "0", "1", "0", "3">>
RunT00 == <<"t", "0", "0", "z">>
RunT01 == <<"t", "0", "1", "z">>
Product01 == <<"w", "r", "f", "s", "f", "c", "f", "0", "1">>
Product02 == <<"w", "r", "f", "s", "f", "c", "f", "0", "2">>

ShapedPath(s) ==
    S3Scheme \o s.bucket \o <<"/">> \o HrrrDot \o s.date \o <<"/">> \o Conus
    \o <<"/">> \o HrrrDot \o s.run \o <<".">> \o s.product \o DotGrib2

(***************************************************************************)
(* sorted()                                                                *)
(***************************************************************************)
RECURSIVE Insert(_, _)
Insert(x, s) ==
    IF s = <<>> THEN <<x>>
    ELSE IF StrLess(x, Head(s)) THEN <<x>> \o s
    ELSE <<Head(s)>> \o Insert(x, Tail(s))

RECURSIVE sorted(_)
sorted(s) == IF s = <<>> THEN <<>> ELSE Insert(Head(s), sorted(Tail(s)))

\* sorted() of a listing that comes as a set of paths.
RECURSIVE sorted_set(_)
sorted_set(S) ==
    IF S = {} THEN <<>>
    ELSE LET x == CHOOSE y \in S : TRUE
         IN  Insert(x, sorted_set(S \ {x}))

(***************************************************************************)
(* find_grib_files                                                         *)
(***************************************************************************)
MAX_DAYS == 2

WrfSuffix ==
    <<"w", "r", "f", "s", "f", "c", "f", "0", "1", ".", "g", "r", "i", "b",
      "2">>

\* The last '/'-separated segment of a path.
BaseName(path) == LET segs == Split(path, "/") IN segs[Len(segs)]

\* Line 71: fs_read.glob(f's3://{day}/conus/*wrfsfcf01.grib2'): the entries of
\* the day's conus/ directory whose name ends with the suffix.
MatchesSuffix(path) == EndsWith(BaseName(path), WrfSuffix)

glob_conus(files, day) == SelectSeq(files[day], MatchesSuffix)

\* Lines 65-66: keep the first MAX_DAYS entries of the listing.
truncate_days_keep_all(days) == days

truncate_days(days) ==
    IF Len(days) > MAX_DAYS THEN SubSeq(days, 1, MAX_DAYS) ELSE days

\* f's3://{file}'
s3_url(file) == S3Scheme \o file

\* Lines 67-72: the comprehension, days outermost.
RECURSIVE comprehension(_, _)
comprehension(days, files) ==
    IF days = <<>> THEN <<>>
    ELSE LET found == glob_conus(files, Head(days))
         IN  [i \in 1..Len(found) |-> s3_url(found[i])]
             \o comprehension(Tail(days), files)

sorted_paths(paths) == sorted(paths)

find_grib_files(days, files) ==
    sorted_paths(comprehension(truncate_days(days), files))

(***************************************************************************)
(* Inputs of an extraction run                                             *)
(***************************************************************************)
\* The most files in a list, the most message records scan_grib returns for
\* one file, and the number of threads of the pool.
MaxFiles == 2
MaxMsgs == 2
NumWorkers == 2

Nest == <<"n", "e", "s", "t", ".">>
DayPath(date) == NoaaBucket \o <<"/">> \o HrrrDot \o date
ConusFile(date, prefix, run, product) ==
    DayPath(date) \o <<"/">> \o Conus \o <<"/">> \o prefix \o run \o <<".">>
    \o product \o DotGrib2

\* Two files of different days, and a file beside the first one that differs
\* from it in the first dotted field of its name only.
F1 == s3_url(ConusFile(Date1, HrrrDot, RunT00, Product01))
F2 == s3_url(ConusFile(Date2, HrrrDot, RunT00, Product01))
F3 == s3_url(ConusFile(Date1, Nest, RunT00, Product01))
\* Three segments (the bucket alone), four (a day directory), five (no
\* conus/), seven, and six with an undotted name.
BucketPath == s3_url(NoaaBucket)
DayDirPath == s3_url(DayPath(Date1))
ShortPath ==
    s3_url(DayPath(Date1) \o <<"/">> \o HrrrDot \o RunT00 \o <<".">>
           \o Product01 \o DotGrib2)
LongPath ==
    s3_url(ConusFile(Date1, HrrrDot, RunT01, Product01) \o <<"/", "p">>)
UndottedPath == s3_url(DayPath(Date1) \o <<"/">> \o Conus \o <<"/">> \o WrfSuffix)

\* What find_grib_files can hand to main, and what generate_json_files can
\* be called with.
RunPaths == {F1, F2, F3, UndottedPath}
GenPaths == {F2, BucketPath, DayDirPath, ShortPath, LongPath, UndottedPath}

Range(s) == {s[i] : i \in DOMAIN s}

\* The lists of at most MaxFiles paths that find_grib_files can return:
\* sorted, and without a path twice.
ListsOver(paths) ==
    {sorted_set(S) : S \in {T \in SUBSET paths : Cardinality(T) <= MaxFiles}}

ScanOutcomes ==
    {[raises |-> TRUE, n |-> 0]} \cup {[raises |-> FALSE, n |-> m] : m \in 0..MaxMsgs}

\* Line 39: json_file_name = make_json_name(file_url, i), looked up in the
\* table of the calls a run can make (computed once, by make_json_name).
RECURSIVE NameTableOver(_)
NameTableOver(calls) ==
    IF calls = {} THEN <<>>
    ELSE LET c == CHOOSE x \in calls : TRUE
         IN  (c :> make_json_name(c[1], c[2])) @@ NameTableOver(calls \ {c})

NameTable == NameTableOver((RunPaths \cup GenPaths) \X (0..(MaxMsgs - 1)))

json_file_name(url, i) == NameTable[<<url, i>>]

(***************************************************************************)
(* generate_json_files, one step at a time                                 *)
(***************************************************************************)
\* What a sidecar path holds.
EmptyFile == [kind |-> "empty", url |-> <<>>, message |-> 0]
TornFile == [kind |-> "torn", url |-> <<>>, message |-> 0]
StaleFile == [kind |-> "stale", url |-> <<>>, message |-> 0]

\* Message record i of the list scan_grib returns for url.
Message(url, i) == [url |-> url, message |-> i]

\* ujson.dumps(message): the text holds the record and nothing else.
ujson_dumps(m) == [kind |-> "json", url |-> m.url, message |-> m.message]

\* A generate_json_files call: k is the position of its file in file_list,
\* st the statement it is at, i the loop index, n = len(references).
Idle == [k |-> 0, st |-> "idle", i |-> 0, n |-> 0]
NewTask(k) == [k |-> k, st |-> "scan", i |-> 0, n |-> 0]

Put(d, name, content) ==
    [x \in DOMAIN d \cup {name} |-> IF x = name THEN content ELSE d[x]]

\* Line 37: scan_grib(file_url, ...). A task that ends has task = Idle; exc
\* names the exception that ended it, "none" for a normal return.
ScanStep(t, url) ==
    LET r == scan_result[url]
    IN  IF r.raises THEN [task |-> Idle, exc |-> "ScanError"]
        ELSE IF r.n = 0 THEN [task |-> Idle, exc |-> "none"]
        ELSE [task |-> [t EXCEPT !.st = "open", !.n = r.n], exc |-> "none"]

\* Lines 39-41: make_json_name, then fs_write.open(json_file_name, "w"),
\* which truncates the path it opens.
OpenStep(t, url, d) ==
    LET nm == json_file_name(url, t.i)
    IN  IF nm.raised # "none"
        THEN [task |-> Idle, dir |-> d, exc |-> nm.raised]
        ELSE IF nm.value \in unwritable
        THEN [task |-> Idle, dir |-> d, exc |-> "OSError"]
        ELSE [task |-> [t EXCEPT !.st = "write"],
              dir |-> Put(d, nm.value, EmptyFile), exc |-> "none"]

\* What the path holds once this writer's text is flushed at offset 0: the
\* text, unless another writer's different text reached the path after this
\* writer truncated it; then the longer of the two decides, and a longer
\* text already there leaves its tail behind this one.
Flushed(text, existing) ==
    IF existing \in {EmptyFile, text} THEN {text} ELSE {text, TornFile}

\* Line 42 and the end of the with block: f.write(ujson.dumps(message)),
\* close; then the next iteration of the for loop, or the return.
loop_next(t) ==
    IF t.i + 1 = t.n THEN Idle ELSE [t EXCEPT !.st = "open", !.i = t.i + 1]

WriteStep(t, url, d) ==
    LET nm == json_file_name(url, t.i).value
        text == ujson_dumps(Message(url, t.i))
    IN  { [task |-> loop_next(t), dir |-> Put(d, nm, c), exc |-> "none",
           wrote |-> [k |-> t.k, message |-> t.i, name |-> nm]]
          : c \in Flushed(text, d[nm]) }

\* fs_write.open refuses nothing, or one sidecar path of F1.
UnwritableChoices ==
    {{}} \cup {{make_json_name(F1, i).value} : i \in 0..(MaxMsgs - 1)}

\* JSON_DIR is empty, or holds a sidecar of an earlier run.
EmptyDir == [x \in {} |-> EmptyFile]
InitDirChoices == {EmptyDir, Put(EmptyDir, make_json_name(F1, 0).value, StaleFile)}

InitNameIdle ==
    /\ shape = [bucket |-> <<>>, date |-> <<>>, run |-> <<>>, product |-> <<>>]
    /\ file_url = <<>>
    /\ message_number = 0
    /\ json_name = [raised |-> "unused", value |-> <<>>]

InitFindIdle ==
    /\ remote_days = <<>>
    /\ remote_files = <<>>
    /\ findPc = "unused"
    /\ grib_files = <<>>

InitRunIdle ==
    /\ file_list = <<>>
    /\ scan_result = <<>>
    /\ unwritable = {}
    /\ initDir = EmptyDir
    /\ seqPc = "unused"
    /\ seqK = 0
    /\ seqTask = Idle
    /\ seqExc = "none"
    /\ dirSeq = EmptyDir
    /\ seqLog = <<>>
    /\ seqScanned = <<>>
    /\ mainPc = "unused"
    /\ queue = <<>>
    /\ running = {}
    /\ futures = <<>>
    /\ dirPar = EmptyDir
    /\ parWritten = {}
    /\ parScanned = <<>>
    /\ reference_jsons = <<>>

InitRun(lists) ==
    /\ file_list \in lists
    /\ scan_result \in [Range(file_list) -> ScanOutcomes]
    /\ unwritable \in UnwritableChoices
    /\ initDir \in InitDirChoices
    /\ seqPc = "running"
    /\ seqK = 1
    /\ seqTask = Idle
    /\ seqExc = "none"
    /\ dirSeq = initDir
    /\ seqLog = <<>>
    /\ seqScanned = <<>>
    /\ mainPc = "start"
    /\ queue = <<>>
    /\ running = {}
    /\ futures = <<>>
    /\ dirPar = initDir
    /\ parWritten = {}
    /\ parScanned = [k \in DOMAIN file_list |-> 0]
    /\ reference_jsons = <<>>
    /\ InitNameIdle
    /\ InitFindIdle

(***************************************************************************)
(* process_files: the for loop of lines 47-48 on the main thread           *)
(***************************************************************************)
\* Line 47: the next file of the list, or the return when there is none.
ProcessFilesLoop ==
    /\ seqPc = "running"
    /\ seqTask = Idle
    /\ IF seqK > Len(file_list)
       THEN seqPc' = "returned" /\ seqTask' = seqTask
       ELSE seqPc' = seqPc /\ seqTask' = NewTask(seqK)
    /\ UNCHANGED <<seqK, seqExc, dirSeq, seqLog, seqScanned>>
    /\ UNCHANGED <<nameVars, findVars, envVars, parVars>>

\* How process_files goes on when a step of generate_json_files ends with
\* exception exc ("none": no exception): an exception leaves the loop.
seq_after_swallowing(exc) == "running"

seq_after(exc) == IF exc = "none" THEN "running" ELSE "raised"

SeqAdvance(r) ==
    /\ seqTask' = r.task
    /\ seqPc' = seq_after(r.exc)
    /\ seqExc' = r.exc
    /\ seqK' = IF r.task = Idle /\ r.exc = "none" THEN seqK + 1 ELSE seqK

SeqScan ==
    /\ seqPc = "running"
    /\ seqTask.st = "scan"
    /\ SeqAdvance(ScanStep(seqTask, file_list[seqK]))
    /\ seqScanned' = Append(seqScanned, seqK)
    /\ UNCHANGED <<dirSeq, seqLog>>
    /\ UNCHANGED <<nameVars, findVars, envVars, parVars>>

SeqOpen ==
    /\ seqPc = "running"
    /\ seqTask.st = "open"
    /\ LET r == OpenStep(seqTask, file_list[seqK], dirSeq)
       IN  SeqAdvance(r) /\ dirSeq' = r.dir
    /\ UNCHANGED <<seqLog, seqScanned>>
    /\ UNCHANGED <<nameVars, findVars, envVars, parVars>>

SeqWrite ==
    /\ seqPc = "running"
    /\ seqTask.st = "write"
    /\ \E r \in WriteStep(seqTask, file_list[seqK], dirSeq) :
          /\ SeqAdvance(r)
          /\ dirSeq' = r.dir
          /\ seqLog' = Append(seqLog, r.wrote)
    /\ UNCHANGED seqScanned
    /\ UNCHANGED <<nameVars, findVars, envVars, parVars>>

(***************************************************************************)
(* main with process_files_parallel, and combine_references                *)
(***************************************************************************)
\* main calls one of the two (line 97 or line 98). Both are run here on the
\* same list, scanner outcomes and refused paths, process_files first and
\* process_files_parallel after it, each on its own copy of JSON_DIR
\* (dirSeq, dirPar), so that what they leave can be compared.
SeqOver == seqPc \in {"returned", "raised"}

\* Line 53: executor.map submits one task per file, in list order, and hands
\* back an iterator nobody reads.
work_items_one_too_many(list) == [k \in 1..(Len(list) + 1) |-> k]

work_items(list) == [k \in 1..Len(list) |-> k]

ProcessFilesParallelMap ==
    /\ SeqOver
    /\ mainPc = "start"
    /\ queue' = work_items(file_list)
    /\ futures' = [k \in 1..Len(file_list) |-> "pending"]
    /\ mainPc' = "shutdown"
    /\ UNCHANGED <<running, dirPar, parWritten, parScanned, reference_jsons>>
    /\ UNCHANGED <<nameVars, findVars, envVars, seqVars>>

\* The future of a task after a step: the work item stores the exception of
\* a call that raised, and the result of one that returned.
future_after(r) ==
    IF r.exc # "none" THEN r.exc
    ELSE IF r.task = Idle THEN "returned" ELSE "running"

\* The calls in progress once call t has made a step that left it as r.task.
StillRunning(t, r) ==
    (running \ {t}) \cup (IF r.task = Idle THEN {} ELSE {r.task})

WorkerAdvance(t, r) ==
    /\ running' = StillRunning(t, r)
    /\ futures' = [futures EXCEPT ![t.k] = future_after(r)]

\* A pool thread that has no call in progress takes the oldest work item and
\* calls generate_json_files, which gets as far as scan_grib returning or
\* raising (line 37).
WorkerStart ==
    /\ queue # <<>>
    /\ Cardinality(running) < NumWorkers
    /\ LET t == NewTask(Head(queue))
       IN  WorkerAdvance(t, ScanStep(t, file_list[t.k]))
    /\ queue' = Tail(queue)
    /\ parScanned' = [parScanned EXCEPT ![Head(queue)] = @ + 1]
    /\ UNCHANGED <<mainPc, dirPar, parWritten, reference_jsons>>
    /\ UNCHANGED <<nameVars, findVars, envVars, seqVars>>

WorkerOpen(t) ==
    /\ t.st = "open"
    /\ LET r == OpenStep(t, file_list[t.k], dirPar)
       IN  WorkerAdvance(t, r) /\ dirPar' = r.dir
    /\ UNCHANGED <<mainPc, queue, parWritten, parScanned, reference_jsons>>
    /\ UNCHANGED <<nameVars, findVars, envVars, seqVars>>

WorkerWrite(t) ==
    /\ t.st = "write"
    /\ \E r \in WriteStep(t, file_list[t.k], dirPar) :
          /\ WorkerAdvance(t, r)
          /\ dirPar' = r.dir
          /\ parWritten' = parWritten \cup {r.wrote}
    /\ UNCHANGED <<mainPc, queue, parScanned, reference_jsons>>
    /\ UNCHANGED <<nameVars, findVars, envVars, seqVars>>

\* Line 52, the end of the with block: shutdown(wait=True) joins the pool
\* threads, which end when the queue is drained and their calls are over.
shutdown_without_wait(q, calls) == TRUE

shutdown_returns(q, calls) == q = <<>> /\ calls = {}

\* What leaves process_files_parallel: the futures are dropped unread.
parallel_exit_reading_results(futs) ==
    IF \E k \in DOMAIN futs : futs[k] \notin {"returned", "pending", "running"}
    THEN "raised" ELSE "combine"

parallel_exit(futs) == "combine"

ExecutorShutdown ==
    /\ mainPc = "shutdown"
    /\ shutdown_returns(queue, running)
    /\ mainPc' = parallel_exit(futures)
    /\ UNCHANGED <<queue, running, futures, dirPar, parWritten, parScanned,
                   reference_jsons>>
    /\ UNCHANGED <<nameVars, findVars, envVars, seqVars>>

\* Line 78: sorted(fs_write.ls(json_dir)); lines 79-89: the consolidation,
\* which the library ends with a dataset or with an exception.
CombineReferences ==
    /\ mainPc = "combine"
    /\ reference_jsons' = sorted_set(DOMAIN dirPar)
    /\ mainPc' \in {"plot", "combine_raised"}
    /\ UNCHANGED <<queue, running, futures, dirPar, parWritten, parScanned>>
    /\ UNCHANGED <<nameVars, findVars, envVars, seqVars>>

\* Lines 103-106.
Plot ==
    /\ mainPc = "plot"
    /\ mainPc' = "done"
    /\ UNCHANGED <<queue, running, futures, dirPar, parWritten, parScanned,
                   reference_jsons>>
    /\ UNCHANGED <<nameVars, findVars, envVars, seqVars>>

Init == InitRun(ListsOver(RunPaths))

InitGen == InitRun({l \in ListsOver(GenPaths) : Len(l) = 1})

Next ==
    \/ ProcessFilesLoop
    \/ SeqScan
    \/ SeqOpen
    \/ SeqWrite
    \/ ProcessFilesParallelMap
    \/ WorkerStart
    \/ \E t \in running : WorkerOpen(t)
    \/ \E t \in running : WorkerWrite(t)
    \/ ExecutorShutdown
    \/ CombineReferences
    \/ Plot

Spec == Init /\ [][Next]_vars

SpecGen == InitGen /\ [][Next]_vars

(***************************************************************************)
(* find_grib_files against a remote listing                                *)
(***************************************************************************)
\* The most day entries the day glob returns.
MaxListedDays == 3

Date4 == <<"2", "0", "2", "4", "0", "1", "0", "4">>
ListedDates == {Date1, Date2, Date3, Date4}
ListedDays == {DayPath(d) : d \in ListedDates}

\* What a day's conus/ directory can hold: nothing; one matching file; two
\* matching files, listed out of order; a matching file and one of another
\* product.
ConusListings(date) ==
    { <<>>,
      <<ConusFile(date, HrrrDot, RunT00, Product01)>>,
      <<ConusFile(date, HrrrDot, RunT01, Product01),
        ConusFile(date, HrrrDot, RunT00, Product01)>>,
      <<ConusFile(date, HrrrDot, RunT00, Product01),
        ConusFile(date, HrrrDot, RunT00, Product02)>> }

DateOf(day) == CHOOSE d \in ListedDates : DayPath(d) = day

\* The day glob's results: different entries, in any order.
DayListings ==
    {l \in UNION {[1..m -> ListedDays] : m \in 0..MaxListedDays} :
        \A i, j \in DOMAIN l : i # j => l[i] # l[j]}

RemoteFilesOf(days) ==
    {f \in [Range(days) -> UNION {ConusListings(d) : d \in ListedDates}] :
        \A day \in Range(days) : f[day] \in ConusListings(DateOf(day))}

InitFind ==
    /\ remote_days \in DayListings
    /\ remote_files \in RemoteFilesOf(remote_days)
    /\ findPc = "ready"
    /\ grib_files = <<>>
    /\ InitNameIdle
    /\ InitRunIdle

\* Lines 57-73.
CallFindGribFiles ==
    /\ findPc = "ready"
    /\ grib_files' = find_grib_files(remote_days, remote_files)
    /\ findPc' = "returned"
    /\ UNCHANGED <<remote_days, remote_files>>
    /\ UNCHANGED <<nameVars, envVars, seqVars, parVars>>

NextFind == CallFindGribFiles

SpecFind == InitFind /\ [][NextFind]_vars

IsWrfsfcf01(file) ==
    \E d \in ListedDates, run \in {RunT00, RunT01} :
        file = ConusFile(d, HrrrDot, run, Product01)

KeptDays == {remote_days[i] : i \in 1..Min(2, Len(remote_days))}
LaterDays == {remote_days[i] : i \in 3..Len(remote_days)}

\* C2: find_grib_files returns exactly the files matching the suffix pattern
\* under the first min(2, number of days) entries of the day listing, each
\* prefixed with s3://, in lexicographic order, and nothing under a later day.
C2_FirstTwoDaysSorted ==
    findPc = "returned" =>
        LET expected ==
                {S3Scheme \o f : f \in {g \in UNION {Range(remote_files[d]) : d \in KeptDays} :
                                           IsWrfsfcf01(g)}}
        IN  /\ Range(grib_files) = expected
            /\ Len(grib_files) = Cardinality(expected)
            /\ \A i, j \in DOMAIN grib_files :
                   i < j => StrLess(grib_files[i], grib_files[j])
            /\ \A p \in Range(grib_files), d \in LaterDays :
                   ~StartsWith(p, S3Scheme \o d \o <<"/">>)

\* Three days listed out of order, files under each, and a result.
C2_Witness ==
    /\ findPc = "returned"
    /\ Len(remote_days) = 3
    /\ StrLess(remote_days[2], remote_days[1])
    /\ \A i \in 1..3 : Len(remote_files[remote_days[i]]) = 2
    /\ Len(grib_files) = 3

\* The largest message index tried on make_json_name alone.
MaxMessageNumber == 11

Shapes ==
    [bucket : {Bucket1, NoaaBucket}, date : {Date1, Date2},
     run : {RunT00, RunT01}, product : {Product01, Product02}]

NotCalled == [raised |-> "not called", value |-> <<>>]

InitName ==
    /\ shape \in Shapes
    /\ file_url = ShapedPath(shape)
    /\ message_number \in 0..MaxMessageNumber
    /\ json_name = NotCalled
    /\ InitFindIdle
    /\ InitRunIdle

CallMakeJsonName ==
    /\ json_name = NotCalled
    /\ json_name' = make_json_name(file_url, message_number)
    /\ UNCHANGED <<shape, file_url, message_number>>
    /\ UNCHANGED <<findVars, envVars, seqVars, parVars>>

NextName == CallMakeJsonName

SpecName == InitName /\ [][NextName]_vars

ExampleName ==
    <<"/", "t", "m", "p", "/", "j", "s", "o", "n", "s", "/",
      "2", "0", "2", "4", "0", "1", "0", "1", "_", "t", "0", "0", "z", "_",
      "w", "r", "f", "s", "f", "c", "f", "0", "1", "_", "m", "e", "s", "s",
      "a", "g", "e", "3", ".", "j", "s", "o", "n">>

ExamplePath ==
    <<"s", "3", ":", "/", "/", "b", "u", "c", "k", "e", "t", "/", "h", "r",
      "r", "r", ".", "2", "0", "2", "4", "0", "1", "0", "1", "/", "c", "o",
      "n", "u", "s", "/", "h", "r", "r", "r", ".", "t", "0", "0", "z", ".",
      "w", "r", "f", "s", "f", "c", "f", "0", "1", ".", "g", "r", "i", "b",
      "2">>

\* C1: for a path of the shape s3://<bucket>/hrrr.<date>/conus/hrrr.<run>.<product>.grib2
\* and index N, make_json_name returns JSON_DIR followed by
\* <date>_<run>_<product>_message<N>.json, whatever the bucket; the spec's
\* example path with index 3 gives /tmp/jsons/20240101_t00z_wrfsfcf01_message3.json.
C1_NameIsDateRunProductIndex ==
    json_name # NotCalled =>
        /\ json_name.raised = "none"
        /\ json_name.value =
               JSON_DIR \o shape.date \o <<"_">> \o shape.run \o <<"_">>
               \o shape.product \o <<"_", "m", "e", "s", "s", "a", "g", "e">>
               \o Str(message_number) \o <<".", "j", "s", "o", "n">>
        /\ (file_url = ExamplePath /\ message_number = 3)
               => json_name.value = ExampleName

C1_Witness ==
    /\ file_url = ExamplePath
    /\ message_number = 3
    /\ json_name = Returned(ExampleName)

(***************************************************************************)
(* What the environment decides for the file at position k of file_list,   *)
(* whatever else runs beside it                                            *)
(***************************************************************************)
Url(k) == file_list[k]
NumMessages(k) == scan_result[Url(k)].n

\* The indices whose sidecar the call cannot write: the name cannot be
\* derived, or the path is refused.
FailsAt(k, i) ==
    \/ json_file_name(Url(k), i).raised # "none"
    \/ json_file_name(Url(k), i).value \in unwritable

FailingIndices(k) == {i \in 0..(NumMessages(k) - 1) : FailsAt(k, i)}

\* How many sidecars the call writes before it returns or raises.
WritesOf(k) ==
    IF scan_result[Url(k)].raises THEN 0
    ELSE IF FailingIndices(k) = {} THEN NumMessages(k)
    ELSE CHOOSE i \in FailingIndices(k) : \A j \in FailingIndices(k) : i <= j

OutcomeOf(k) ==
    IF scan_result[Url(k)].raises THEN "ScanError"
    ELSE IF FailingIndices(k) = {} THEN "returned"
    ELSE IF json_file_name(Url(k), WritesOf(k)).raised # "none" THEN "IndexError"
    ELSE "OSError"

SidecarEntry(k, i) ==
    [k |-> k, message |-> i, name |-> json_file_name(Url(k), i).value]

SidecarsOf(k) == {SidecarEntry(k, i) : i \in 0..(WritesOf(k) - 1)}

Exceptions == {"ScanError", "IndexError", "OSError"}
PastShutdown == {"combine", "plot", "done", "combine_raised", "raised"}
ParOver == mainPc \in PastShutdown
AllReturned == \A k \in DOMAIN file_list : OutcomeOf(k) = "returned"

NoTornFile == \A x \in DOMAIN dirPar : dirPar[x] # TornFile

\* C3: process_files and process_files_parallel, run on the same list from the
\* same directory, leave the same sidecar names with the same content. Stated
\* here for the runs in which no call raises and no file is left torn by two
\* writers.
C3_SameSidecarsSeqPar ==
    (SeqOver /\ ParOver /\ AllReturned /\ NoTornFile) => dirPar = dirSeq

ExactlyTheSidecars(dir) ==
    LET pairs == {p \in (DOMAIN file_list) \X (0..(MaxMsgs - 1)) :
                     p[2] < NumMessages(p[1])}
    IN  /\ DOMAIN dir = {json_file_name(Url(p[1]), p[2]).value : p \in pairs}
        /\ Cardinality(DOMAIN dir) = Cardinality(pairs)
        /\ \A p \in pairs :
               dir[json_file_name(Url(p[1]), p[2]).value]
                   = ujson_dumps(Message(Url(p[1]), p[2]))

\* C4: from an empty directory, an extraction in which every call returns
\* leaves exactly one sidecar per (file, message) pair, under the derived
\* name, holding that message's record.
C4_OneSidecarPerMessage ==
    (AllReturned /\ initDir = EmptyDir) =>
        /\ seqPc = "returned" => ExactlyTheSidecars(dirSeq)
        /\ ParOver => ExactlyTheSidecars(dirPar)

\* C8: two different (source file, message index) pairs of a run never get
\* the same sidecar name, so no path is written twice.
C8_NamesUnique ==
    /\ \A a, b \in parWritten : a.name = b.name => a = b
    /\ \A a, b \in DOMAIN seqLog :
           seqLog[a].name = seqLog[b].name => a = b

\* C5: on an empty list both process_files and process_files_parallel return
\* without raising, scan nothing and leave the directory as it was.
C5_EmptyListDoesNothing ==
    file_list = <<>> =>
        /\ seqPc # "raised" /\ seqExc = "none"
        /\ seqTask = Idle /\ seqScanned = <<>> /\ seqLog = <<>>
        /\ dirSeq = initDir
        /\ mainPc # "raised"
        /\ queue = <<>> /\ running = {} /\ futures = <<>>
        /\ parWritten = {} /\ dirPar = initDir
        /\ mainPc = "shutdown" => shutdown_returns(queue, running)

C5_Witness ==
    /\ file_list = <<>>
    /\ initDir # EmptyDir
    /\ seqPc = "returned"
    /\ mainPc = "combine"
    /\ dirSeq = initDir /\ dirPar = initDir

\* C6: a call that raises on a pool thread is never seen by main:
\* process_files_parallel does not raise, every task is run once and to its
\* own end whatever the others do, and main goes on to the combination.
C6_ParallelFailuresAreLost ==
    /\ mainPc # "raised"
    /\ \A k \in DOMAIN futures :
           /\ parScanned[k] <= 1
           /\ futures[k] \in {"pending", "running", OutcomeOf(k)}
           /\ futures[k] = "pending" <=> parScanned[k] = 0
           /\ {e \in parWritten : e.k = k} \subseteq SidecarsOf(k)
    /\ ParOver =>
           /\ DOMAIN futures = DOMAIN file_list
           /\ \A k \in DOMAIN futures :
                  /\ futures[k] = OutcomeOf(k)
                  /\ SidecarsOf(k) \subseteq parWritten

C6_Witness ==
    /\ mainPc = "combine"
    /\ \E k, m \in DOMAIN futures :
           /\ k < m
           /\ futures[k] \in Exceptions
           /\ futures[m] = "returned"
           /\ SidecarsOf(m) # {}
           /\ SidecarsOf(m) \subseteq parWritten

Listed == mainPc \in {"plot", "done", "combine_raised"}

\* C9: combine_references lists the directory only when every submitted task
\* is over: nothing is queued or in progress from then on, and the listing
\* holds every sidecar the run wrote.
C9_CombineAfterAllTasks ==
    /\ ParOver =>
           /\ queue = <<>> /\ running = {}
           /\ \A k \in DOMAIN file_list : futures[k] \notin {"pending", "running"}
    /\ Listed =>
           /\ Range(reference_jsons) = DOMAIN dirPar
           /\ \A k \in DOMAIN file_list : \A e \in SidecarsOf(k) :
                  e.name \in Range(reference_jsons)

C9_Witness ==
    /\ mainPc = "plot"
    /\ Len(file_list) = 2
    /\ Len(reference_jsons) = 4

FirstFailing ==
    LET failing == {k \in DOMAIN file_list : OutcomeOf(k) # "returned"}
    IN  IF failing = {} THEN Len(file_list) + 1
        ELSE CHOOSE k \in failing : \A m \in failing : k <= m

RECURSIVE ExpectedLogFrom(_)
ExpectedLogFrom(k) ==
    IF k > Len(file_list) THEN <<>>
    ELSE [i \in 1..WritesOf(k) |-> SidecarEntry(k, i - 1)]
         \o (IF OutcomeOf(k) # "returned" THEN <<>> ELSE ExpectedLogFrom(k + 1))

RECURSIVE Replay(_, _)
Replay(dir, log) ==
    IF log = <<>> THEN dir
    ELSE Replay(Put(dir, Head(log).name,
                    ujson_dumps(Message(Url(Head(log).k), Head(log).message))),
                Tail(log))

IsPrefix(s, t) == Len(s) <= Len(t) /\ SubSeq(t, 1, Len(s)) = s

\* C10: process_files takes the files in list order and writes each file's
\* messages by increasing index; when file k raises at message j the
\* exception leaves process_files, no later file is scanned or written, and
\* the sidecars written so far stay as they are.
C10_SequentialStopsAtFirstFailure ==
    /\ IsPrefix(seqLog, ExpectedLogFrom(1))
    /\ IsPrefix(seqScanned, [k \in 1..Min(FirstFailing, Len(file_list)) |-> k])
    /\ seqPc = "raised" =>
           /\ seqK = FirstFailing
           /\ seqExc = OutcomeOf(seqK)
           /\ seqScanned = [k \in 1..seqK |-> k]
           /\ seqLog = ExpectedLogFrom(1)
           /\ dirSeq = Replay(initDir, seqLog)
    /\ seqPc = "returned" =>
           /\ FirstFailing = Len(file_list) + 1
           /\ seqLog = ExpectedLogFrom(1)
           /\ dirSeq = Replay(initDir, seqLog)

\* File 1 of 2 raises at message 1, after its message 0 was written.
C10_Witness ==
    /\ seqPc = "raised"
    /\ Len(file_list) = 2
    /\ seqK = 1
    /\ seqExc = "OSError"
    /\ Len(seqLog) = 1
    /\ seqScanned = <<1>>

SegCount(url) == Len(Split(url, "/"))

ScansSome(k) == ~scan_result[Url(k)].raises /\ NumMessages(k) >= 1

RaisesIndexErrorWritesNothing(k) ==
    /\ \A e \in parWritten : e.k # k
    /\ \A a \in DOMAIN seqLog : seqLog[a].k # k
    /\ (seqK = k /\ seqTask = Idle /\ seqScanned # <<>>
            /\ seqScanned[Len(seqScanned)] = k) =>
           seqPc = "raised" /\ seqExc = "IndexError"
    /\ k \in DOMAIN futures =>
           futures[k] \in {"pending", "running", "IndexError"}
    /\ ParOver => futures[k] = "IndexError"

====
